---- MODULE Spec2Model ----
(***************************************************************************)
(* Persistent session subsystem of exegol-mcp                              *)
(* (src/exegol_mcp/session_manager.py): ExegolSession, SessionMetrics and  *)
(* SessionManager, run by asyncio tasks that interleave only at awaits.    *)
(* One action is one run of a coroutine between two suspension points.     *)
(***************************************************************************)
EXTENDS Integers, Sequences, FiniteSets, TLC

\* ------------------------------------------------------------------ bounds

\* wall clock (time.time()) runs over 0..MaxTime, in seconds
MaxTime == 2
\* ExegolSession objects constructed over a run
MaxSessions == 2
\* API calls (get_or_create_session, exec, close_session, ...) started over a run
MaxOps == 3

\* ------------------------------------------------------- program constants

\* SessionConfig.session_idle_timeout (300 s in the source, scaled)
IdleTimeout == 1
\* SessionConfig.default_timeout (180 s in the source, scaled)
DefaultTimeout == 1
\* one read wait of the read loop, in seconds: wait_for(readline(), timeout=1.0)
ReadWait == 1

AllContainers == {"c1", "c2"}
Containers == {"c1"}
Tasks == {1, 2}
\* with a third task: one more caller (the lock's queue), or the task that
\* start_cleanup_task creates (SessionManager._cleanup_task)
AllTasks == {1, 2, 3}
Reaper == 3
\* the tasks that successive calls of start_cleanup_task create
ReaperTasks == {3, 4, 5}
TaskIds == AllTasks \cup ReaperTasks
SessionIds == 1..MaxSessions

\* --------------------------------------------------------- framing protocol

\* A line of the subprocess's output is a sequence of tokens; a token is a
\* piece of text: the exit-code sentinel "__EXEGOL_EXIT_CODE__", a decimal
\* number, an end marker (output_marker_prefix + nonce), or other text.
ExitTok == [t |-> "exit", v |-> 0]
NumTok(k) == [t |-> "num", v |-> k]
MarkTok(n) == [t |-> "mark", v |-> n]
TxtTok == [t |-> "txt", v |-> 0]

\* A line read from the pipe: its text and (for the statements about whose
\* output it is) the call whose framed command made the shell print it.
Line(n, toks) == [call |-> n, toks |-> toks]

\* The commands callers submit, by what bash prints for them:
\*   body     complete (newline-terminated) lines of output
\*   partial  the output ends with text that has no newline ("printf foo")
\*   late     a background job prints text with no newline after the command
\*            returned ("(sleep 1; printf baz) &")
\*   status   the exit status $? of the command
Cmd(body, partial, late, status) ==
    [body |-> body, partial |-> partial, late |-> late, status |-> status]
CmdEcho == Cmd(<< <<TxtTok>> >>, FALSE, FALSE, 0)
CmdFail == Cmd(<< >>, FALSE, FALSE, 7)
CmdPrintf == Cmd(<< >>, TRUE, FALSE, 7)
CmdBackground == Cmd(<< <<TxtTok>> >>, FALSE, TRUE, 0)
CmdFakeSentinel == Cmd(<< <<ExitTok, TxtTok>> >>, FALSE, FALSE, 0)
AllCommands == {CmdEcho, CmdFail, CmdPrintf, CmdBackground, CmdFakeSentinel}
Commands == {CmdEcho, CmdPrintf}

\* f"{command}\necho __EXEGOL_EXIT_CODE__$?\necho {marker}\n" as bash answers
\* it: the command's lines, then the sentinel with the status, then the marker;
\* text without a newline runs into the echo that follows it.
FullCommand(n, cmd) ==
    [i \in 1..Len(cmd.body) |-> Line(n, cmd.body[i])]
    \o << Line(n, (IF cmd.partial THEN <<TxtTok>> ELSE << >>)
                    \o <<ExitTok, NumTok(cmd.status)>>) >>
    \o << Line(n, (IF cmd.late THEN <<TxtTok>> ELSE << >>) \o <<MarkTok(n)>>) >>

\* marker in line_str
HasMarkerExact(toks, n) == toks = <<MarkTok(n)>>
HasMarker(toks, n) == \E i \in 1..Len(toks) : toks[i] = MarkTok(n)

\* line_str.startswith("__EXEGOL_EXIT_CODE__")
IsExitLineAnywhere(toks) == \E i \in 1..Len(toks) : toks[i] = ExitTok
IsExitLine(toks) == Len(toks) > 0 /\ toks[1] = ExitTok

\* int(line_str.replace("__EXEGOL_EXIT_CODE__", "").strip()), ValueError -> -1
ParseExitCode(toks) ==
    LET rest == SelectSeq(toks, LAMBDA x : x # ExitTok)
    IN  IF Len(rest) = 1 /\ rest[1].t = "num" THEN rest[1].v ELSE -1

\* exit_code = 0 before the read loop
InitialExitCode == 0

\* "exit_code": exit_code if not timed_out else -1
ResultExitCodeRaw(exit_code, timed_out) == exit_code
ResultExitCode(exit_code, timed_out) == IF timed_out THEN -1 ELSE exit_code

\* ------------------------------------------------------------------- state

VARIABLES
    now,                \* time.time()
    ops,                \* API calls started so far (a queued exec() keeps the
                        \* number of its call in ex[t].submitted)
    ncalls,             \* nonces drawn so far (uuid.uuid4().hex[:8], taken fresh)
    sessions,           \* SessionManager.sessions: the dict's items [c, s], in insertion order
    nsess,              \* ExegolSession objects constructed so far
    container,          \* ExegolSession.container_name
    process,            \* ExegolSession.process: "none" (None) or "proc"
    is_closed,          \* ExegolSession._is_closed
    lock,               \* ExegolSession._lock: the task holding it, 0 = free
    waiters,            \* ExegolSession._lock._waiters, in arrival order
    last_command_at,    \* SessionMetrics.last_command_at
    commands_executed,  \* SessionMetrics.commands_executed
    alive,              \* the subprocess: "none", "running", "stalled" (it runs
                        \* but reads no input and prints nothing, and the
                        \* buffers of its input pipe are full), "dead"
                        \* (exited, the event loop has not seen it yet),
                        \* "reaped" (seen: the transport and the input pipe
                        \* are closed)
    spawned,            \* subprocesses created for the session so far
    pending,            \* lines bash will still print for the input it has read
    pipe,               \* lines in the output pipe, not yet read
    handed,             \* the session was returned to a caller
    pc,                 \* where each task is suspended
    op,                 \* the API call the task is in
    ex,                 \* the locals of the task's coroutine
    todo,               \* containers / sessions the task's loop still has to visit
    res,                \* what the task's last API call returned or raised (with,
                        \* for the statements below, the call's command, nonce and
                        \* whether a sentinel line was parsed)
    cleanup_task        \* SessionManager._cleanup_task: 0 (None) or a task

sessVars == <<container, process, is_closed, lock, waiters, last_command_at,
              commands_executed, handed>>
procVars == <<alive, spawned, pending, pipe>>
taskVars == <<pc, op, ex, todo, res, cleanup_task>>
vars == <<now, ops, ncalls, sessions, nsess, sessVars, procVars, taskVars>>

NoEx == [s |-> 0, cmd |-> CmdEcho, timeout |-> 0, start_time |-> 0, marker |-> 0,
         stdout_lines |-> << >>, exit_code |-> 0, closed_count |-> 0,
         seen_exit |-> FALSE, submitted |-> 0, waited |-> FALSE, awaited |-> 0]

\* the dict operations used on SessionManager.sessions
Has(m, c) == \E i \in 1..Len(m) : m[i].c = c
Get(m, c) == IF Has(m, c) THEN m[CHOOSE i \in 1..Len(m) : m[i].c = c].s ELSE 0
Del(m, c) == SelectSeq(m, LAMBDA e : e.c # c)
Put(m, c, s) ==
    IF Has(m, c)
    THEN [i \in 1..Len(m) |-> IF m[i].c = c THEN [c |-> c, s |-> s] ELSE m[i]]
    ELSE Append(m, [c |-> c, s |-> s])

NoRes == [kind |-> "none", err |-> "", s |-> 0, call |-> 0, stdout |-> << >>,
          exit_code |-> 0, raw_exit |-> 0, timed_out |-> FALSE, cmd |-> CmdEcho,
          n |-> 0, seen_exit |-> FALSE, infos |-> << >>]
Raised(err, s) == [NoRes EXCEPT !.kind = "error", !.err = err, !.s = s]
Returned(kind, s) == [NoRes EXCEPT !.kind = kind, !.s = s]

Init ==
    /\ now = 0 /\ ops = 0 /\ ncalls = 0 /\ nsess = 0
    /\ sessions = << >>
    /\ container = [s \in SessionIds |-> "c1"]
    /\ process = [s \in SessionIds |-> "none"]
    /\ is_closed = [s \in SessionIds |-> FALSE]
    /\ lock = [s \in SessionIds |-> 0]
    /\ waiters = [s \in SessionIds |-> << >>]
    /\ last_command_at = [s \in SessionIds |-> 0]
    /\ commands_executed = [s \in SessionIds |-> 0]
    /\ alive = [s \in SessionIds |-> "none"]
    /\ spawned = [s \in SessionIds |-> 0]
    /\ pending = [s \in SessionIds |-> << >>]
    /\ pipe = [s \in SessionIds |-> << >>]
    /\ handed = [s \in SessionIds |-> FALSE]
    /\ pc = [t \in TaskIds |-> "idle"]
    /\ op = [t \in TaskIds |-> "none"]
    /\ ex = [t \in TaskIds |-> NoEx]
    /\ todo = [t \in TaskIds |-> << >>]
    /\ res = [t \in TaskIds |-> NoRes]
    /\ cleanup_task = 0

\* a task starts an API call; idle tasks are interchangeable, so the call is
\* run by the first idle one
Call(t, name) ==
    /\ pc[t] = "idle"
    /\ \A u \in AllTasks : u < t => pc[u] # "idle"
    /\ ops < MaxOps
    /\ ops' = ops + 1

\* the task's call is over: it returned or raised r.  In cleanup_loop the call
\* is a sweep: its count is logged, or its exception is caught and logged, and
\* the loop sleeps again.
DoneLoopBreaks(t, r) ==
    /\ pc' = [pc EXCEPT ![t] = IF op[t] = "cleanup_loop"
                                THEN (IF r.kind = "error" THEN "done" ELSE "sleep")
                                ELSE "idle"]
    /\ op' = [op EXCEPT ![t] = IF op[t] = "cleanup_loop" THEN @ ELSE "none"]
    /\ ex' = [ex EXCEPT ![t] = NoEx]
    /\ todo' = [todo EXCEPT ![t] = << >>]
    /\ res' = [res EXCEPT ![t] = r]
    /\ UNCHANGED cleanup_task
Done(t, r) ==
    /\ pc' = [pc EXCEPT ![t] = IF op[t] = "cleanup_loop" THEN "sleep" ELSE "idle"]
    /\ op' = [op EXCEPT ![t] = IF op[t] = "cleanup_loop" THEN @ ELSE "none"]
    /\ ex' = [ex EXCEPT ![t] = NoEx]
    /\ todo' = [todo EXCEPT ![t] = << >>]
    /\ res' = [res EXCEPT ![t] = r]
    /\ UNCHANGED cleanup_task

\* the task suspends at an await, with locals e
Await(t, name, at, e) ==
    /\ pc' = [pc EXCEPT ![t] = at]
    /\ op' = [op EXCEPT ![t] = name]
    /\ ex' = [ex EXCEPT ![t] = e]
    /\ UNCHANGED cleanup_task

\* ----------------------------------------------------------- the subprocess

\* bash prints the next line of its answer
ShellEmit(s) ==
    /\ alive[s] = "running"
    /\ pending[s] # << >>
    /\ pipe' = [pipe EXCEPT ![s] = Append(@, Head(pending[s]))]
    /\ pending' = [pending EXCEPT ![s] = Tail(@)]
    /\ UNCHANGED <<now, ops, ncalls, sessions, nsess, sessVars, alive, spawned, taskVars>>

\* the subprocess stops reading its input for good (bash is busy with a
\* command that does not end) while the pipe to it is full
Stall(s) ==
    /\ alive[s] = "running"
    /\ pending[s] = << >>
    /\ alive' = [alive EXCEPT ![s] = "stalled"]
    /\ UNCHANGED <<now, ops, ncalls, sessions, nsess, sessVars, spawned, pending, pipe, taskVars>>

\* the subprocess is killed from outside
Kill(s) ==
    /\ alive[s] \in {"running", "stalled"}
    /\ alive' = [alive EXCEPT ![s] = "dead"]
    /\ pending' = [pending EXCEPT ![s] = << >>]
    /\ UNCHANGED <<now, ops, ncalls, sessions, nsess, sessVars, spawned, pipe, taskVars>>

\* the event loop sees that the subprocess exited and closes its transport
Reap(s) ==
    /\ alive[s] = "dead"
    /\ alive' = [alive EXCEPT ![s] = "reaped"]
    /\ UNCHANGED <<now, ops, ncalls, sessions, nsess, sessVars, spawned, pending, pipe, taskVars>>

\* a second passes.  Only differences of times are ever read, so the clock is
\* started when the first session is constructed.
Tick ==
    /\ nsess > 0
    /\ now < MaxTime
    /\ now' = now + 1
    /\ UNCHANGED <<ops, ncalls, sessions, nsess, sessVars, procVars, taskVars>>

\* ------------------------------------------------------------ ExegolSession

\* asyncio.Lock.acquire takes the lock at once only when it is free and nobody
\* waits for it; otherwise the caller queues.
LockFreeAlways(s) == TRUE
LockFreeBarging(s) == lock[s] = 0
LockFreeShared(s) == \A q \in SessionIds : lock[q] = 0 /\ waiters[q] = << >>
LockFree(s) == lock[s] = 0 /\ waiters[s] = << >>

\* self._is_closed = True, in the end-of-stream branch of the read loop
MarkClosedNot(s) == is_closed
MarkClosed(s) == [is_closed EXCEPT ![s] = TRUE]

\* if marker in line_str: break
IsEndMarker(toks, n) == HasMarker(toks, n)

\* session.is_idle(): metrics.get_idle_time() > config.session_idle_timeout
IsIdle(s) == now - last_command_at[s] > IdleTimeout

\* lines 243-260: record_command, the result, and the lock's release
ExecReturnUnrecorded(t, s, e, timed_out) ==
    /\ UNCHANGED <<commands_executed, last_command_at>>
    /\ lock' = [lock EXCEPT ![s] = 0]
    /\ Done(t, [kind |-> "result", err |-> "", s |-> s, call |-> e.marker,
                stdout |-> e.stdout_lines,
                exit_code |-> ResultExitCode(e.exit_code, timed_out),
                raw_exit |-> e.exit_code, timed_out |-> timed_out, cmd |-> e.cmd,
                n |-> 0, seen_exit |-> e.seen_exit, infos |-> << >>])
ExecReturn(t, s, e, timed_out) ==
    /\ commands_executed' = [commands_executed EXCEPT ![s] = @ + 1]
    /\ last_command_at' = [last_command_at EXCEPT ![s] = now]
    /\ lock' = [lock EXCEPT ![s] = 0]
    /\ Done(t, [kind |-> "result", err |-> "", s |-> s, call |-> e.marker,
                stdout |-> e.stdout_lines,
                exit_code |-> ResultExitCode(e.exit_code, timed_out),
                raw_exit |-> e.exit_code, timed_out |-> timed_out, cmd |-> e.cmd,
                n |-> 0, seen_exit |-> e.seen_exit, infos |-> << >>])

\* an exception leaves _exec_locked and "async with self._lock"
ExecRaiseHolding(t, s, err) ==
    /\ lock' = [lock EXCEPT ![s] = t]
    /\ Done(t, Raised(err, s))
    /\ UNCHANGED <<commands_executed, last_command_at>>
ExecRaise(t, s, err) ==
    /\ lock' = [lock EXCEPT ![s] = 0]
    /\ Done(t, Raised(err, s))
    /\ UNCHANGED <<commands_executed, last_command_at>>

\* if time.time() - start_time > timeout
TimedOutLate(e) == now - e.start_time > e.timeout + ReadWait
TimedOut(e) == now - e.start_time > e.timeout

\* the top of "while True": the timeout check, then the next readline(), a
\* fresh wait of at most one second
LoopTop(t, s, e) ==
    IF TimedOut(e)
    THEN ExecReturn(t, s, e, TRUE)
    ELSE IF process[s] = "none"
         THEN ExecRaise(t, s, "attr")
         ELSE /\ Await(t, "exec", "read", [e EXCEPT !.waited = FALSE])
              /\ lock' = [lock EXCEPT ![s] = t]
              /\ UNCHANGED <<commands_executed, last_command_at, todo, res>>

\* start_time = time.time(), the first statement of _exec_locked after the
\* default of the timeout: the clock is read once the lock is held.  (The
\* start_time of a task that waits for the lock is still the 0 of NoEx.)
StartTimeBeforeLock(t) == IF pc[t] = "lock" THEN ex[t].start_time ELSE now
StartTime(t) == now

\* _exec_locked up to its first suspension: the marker, the framed write, drain
ExecLocked(t, s, cmd, timeout) ==
    LET n == ncalls + 1
        e == [s |-> s, cmd |-> cmd, timeout |-> timeout, start_time |-> StartTime(t),
              marker |-> n, stdout_lines |-> << >>, exit_code |-> InitialExitCode,
              closed_count |-> 0, seen_exit |-> FALSE, submitted |-> 0,
              waited |-> FALSE, awaited |-> 0]
    IN  /\ ncalls' = n
        /\ IF process[s] = "none"
           THEN ExecRaise(t, s, "no_stdin") /\ UNCHANGED pending
           ELSE IF alive[s] = "reaped"
                THEN ExecRaise(t, s, "write") /\ UNCHANGED pending
                ELSE IF alive[s] = "stalled"
                THEN /\ Await(t, "exec", "write", e)
                     /\ lock' = [lock EXCEPT ![s] = t]
                     /\ UNCHANGED <<pending, commands_executed, last_command_at, todo, res>>
                ELSE /\ pending' = IF alive[s] = "running"
                                   THEN [pending EXCEPT ![s] = @ \o FullCommand(n, cmd)]
                                   ELSE pending
                     /\ LoopTop(t, s, e)

Timeouts == {DefaultTimeout}

\* ExegolSession.exec, called on a session a caller holds
Exec(t, s, cmd, timeout) ==
    /\ Call(t, "exec")
    /\ handed[s]
    /\ IF process[s] = "none"
       THEN /\ Done(t, Raised("not_started", s))
            /\ UNCHANGED <<ncalls, pending, lock, waiters, commands_executed, last_command_at>>
       ELSE IF is_closed[s]
            THEN /\ Done(t, Raised("closed", s))
                 /\ UNCHANGED <<ncalls, pending, lock, waiters, commands_executed, last_command_at>>
            ELSE IF LockFree(s)
                 THEN ExecLocked(t, s, cmd, timeout) /\ UNCHANGED waiters
                 ELSE /\ waiters' = [waiters EXCEPT ![s] = Append(@, t)]
                      /\ Await(t, "exec", "lock",
                               [NoEx EXCEPT !.s = s, !.cmd = cmd, !.timeout = timeout,
                                            !.submitted = ops + 1])
                      /\ UNCHANGED <<ncalls, pending, lock, commands_executed,
                                     last_command_at, todo, res>>
    /\ UNCHANGED <<now, sessions, nsess, container, process, is_closed, handed,
                   alive, spawned, pipe>>

\* the lock was released and this task is the first waiter
ExecWake(t) ==
    /\ pc[t] = "lock"
    /\ LET s == ex[t].s
       IN  /\ lock[s] = 0
           /\ waiters[s] # << >> /\ Head(waiters[s]) = t
           /\ waiters' = [waiters EXCEPT ![s] = Tail(@)]
           /\ ExecLocked(t, s, ex[t].cmd, ex[t].timeout)
    /\ UNCHANGED <<now, ops, sessions, nsess, container, process, is_closed, handed,
                   alive, spawned, pipe>>

\* readline() returned a line
ExecLine(t) ==
    /\ pc[t] = "read"
    /\ LET s == ex[t].s
           e == ex[t]
           line == Head(pipe[s])
       IN  /\ pipe[s] # << >>
           /\ pipe' = [pipe EXCEPT ![s] = Tail(@)]
           /\ IF IsEndMarker(line.toks, e.marker)
              THEN ExecReturn(t, s, e, FALSE)
              ELSE IF IsExitLine(line.toks)
                   THEN LoopTop(t, s, [e EXCEPT !.exit_code = ParseExitCode(line.toks),
                                                  !.seen_exit = TRUE])
                   ELSE LoopTop(t, s, [e EXCEPT !.stdout_lines = Append(@, line)])
    /\ UNCHANGED <<now, ops, ncalls, sessions, nsess, container, process, is_closed,
                   waiters, handed, alive, spawned, pending>>

\* readline() returned b"": the pipe is at end-of-stream
ExecEOF(t) ==
    /\ pc[t] = "read"
    /\ LET s == ex[t].s
       IN  /\ pipe[s] = << >>
           /\ alive[s] \in {"dead", "reaped"}
           /\ is_closed' = MarkClosed(s)
           /\ ExecRaise(t, s, "died")
    /\ UNCHANGED <<now, ops, ncalls, sessions, nsess, container, process,
                   waiters, handed, alive, spawned, pending, pipe>>

\* "await self.process.stdin.drain()", waiting for room in the pipe, is over
\* when the subprocess is gone: drain() raises
ExecWriteFails(t) ==
    /\ pc[t] = "write"
    /\ alive[ex[t].s] \in {"dead", "reaped"}
    /\ ExecRaise(t, ex[t].s, "write")
    /\ UNCHANGED <<now, ops, ncalls, sessions, nsess, container, process, is_closed,
                   waiters, handed, procVars>>

\* wait_for(readline(), 1.0) timed out with nothing to read: continue.  The
\* clock ticks in seconds, so a wait that began before the deadline and ends
\* after it lasted the whole second.
ExecPoll(t) ==
    /\ pc[t] = "read"
    /\ LET s == ex[t].s
       IN  /\ pipe[s] = << >>
           /\ alive[s] \in {"running", "stalled"}
           /\ LoopTop(t, s, ex[t])
    /\ UNCHANGED <<now, ops, ncalls, sessions, nsess, container, process, is_closed,
                   waiters, handed, alive, spawned, pending, pipe>>

\* The caller's task is cancelled while exec() is suspended: CancelledError is
\* raised at the await.  Queued in "async with self._lock", acquire() takes the
\* caller out of the lock's waiters and passes a wake-up on; in the read loop
\* the error is no Exception (line 239 does not catch it) and it leaves
\* _exec_locked and "async with", which releases the lock.
Cancel(t) ==
    /\ op[t] = "exec"
    /\ pc[t] \in {"lock", "read"}
    /\ LET s == ex[t].s
       IN  IF pc[t] = "lock"
           THEN /\ waiters' = [waiters EXCEPT ![s] = SelectSeq(@, LAMBDA u : u # t)]
                /\ Done(t, Raised("cancelled", s))
                /\ UNCHANGED <<lock, commands_executed, last_command_at>>
           ELSE /\ ExecRaise(t, s, "cancelled")
                /\ UNCHANGED waiters
    /\ UNCHANGED <<now, ops, ncalls, sessions, nsess, container, process, is_closed,
                   handed, procVars>>

\* ExegolSession.get_info on a session a caller holds: the metrics are read
GetInfo(t, s) ==
    /\ Call(t, "get_info")
    /\ handed[s]
    /\ Done(t, [Returned("info", s) EXCEPT !.n = commands_executed[s]])
    /\ UNCHANGED <<now, ncalls, sessions, nsess, sessVars, procVars>>

\* ----------------------------------------------------------- SessionManager

\* session.process and not session._is_closed
IsActiveStarted(s) == process[s] = "proc"
IsActive(s) == process[s] = "proc" /\ ~is_closed[s]

\* get_or_create_session up to its first suspension (create_subprocess_exec)
GetOrCreateSession(t, c) ==
    /\ Call(t, "get_or_create_session")
    /\ LET s == Get(sessions, c)
       IN  IF s # 0 /\ IsActive(s)
           THEN /\ Done(t, Returned("session", s))
                /\ handed' = [handed EXCEPT ![s] = TRUE]
                /\ UNCHANGED <<sessions, nsess, container, last_command_at>>
           ELSE /\ nsess < MaxSessions
                /\ nsess' = nsess + 1
                /\ sessions' = Del(sessions, c)
                /\ container' = [container EXCEPT ![nsess + 1] = c]
                /\ last_command_at' = [last_command_at EXCEPT ![nsess + 1] = now]
                /\ Await(t, "get_or_create_session", "spawn", [NoEx EXCEPT !.s = nsess + 1])
                /\ UNCHANGED <<handed, todo, res>>
    /\ UNCHANGED <<now, ncalls, process, is_closed, lock, waiters, commands_executed,
                   procVars>>

\* the state checks of start(): it raises on a session that holds a process
\* handle, and on one that is marked closed
StartCheckNone(s) == "ok"
StartCheckClosedOnly(s) == IF is_closed[s] THEN "closed_restart" ELSE "ok"
StartCheckHandleOnly(s) == IF process[s] # "none" THEN "already_started" ELSE "ok"
StartCheck(s) ==
    IF process[s] # "none" THEN "already_started"
    ELSE IF is_closed[s] THEN "closed_restart"
    ELSE "ok"

\* ExegolSession.start, called on a session a caller holds, up to its first
\* suspension (create_subprocess_exec)
Start(t, s) ==
    /\ Call(t, "start")
    /\ handed[s]
    /\ IF StartCheck(s) # "ok"
       THEN Done(t, Raised(StartCheck(s), s))
       ELSE /\ Await(t, "start", "spawn", [NoEx EXCEPT !.s = s])
            /\ UNCHANGED <<todo, res>>
    /\ UNCHANGED <<now, ncalls, sessions, nsess, sessVars, procVars>>

\* create_subprocess_exec returned: self.process is set, then sleep(0.1)
StartSpawned(t) ==
    /\ pc[t] = "spawn"
    /\ LET s == ex[t].s
       IN  /\ process' = [process EXCEPT ![s] = "proc"]
           /\ alive' = [alive EXCEPT ![s] = "running"]
           /\ spawned' = [spawned EXCEPT ![s] = @ + 1]
    /\ pc' = [pc EXCEPT ![t] = "drain"]
    /\ UNCHANGED <<now, ops, ncalls, sessions, nsess, container, is_closed, lock, waiters,
                   last_command_at, commands_executed, handed, pending, pipe,
                   op, ex, todo, res, cleanup_task>>

\* create_subprocess_exec raised FileNotFoundError
StartFailsStored(t) ==
    /\ pc[t] = "spawn"
    /\ sessions' = Put(sessions, container[ex[t].s], ex[t].s)
    /\ Done(t, Raised("spawn", ex[t].s))
    /\ UNCHANGED <<now, ops, ncalls, nsess, sessVars, procVars>>
StartFails(t) ==
    /\ pc[t] = "spawn"
    /\ Done(t, Raised("spawn", ex[t].s))
    /\ UNCHANGED <<now, ops, ncalls, sessions, nsess, sessVars, procVars>>

\* _drain_initial_output saw its idle gap (read() timed out after 0.05 s);
\* start() returns and the session is stored.  On a pipe at end-of-stream
\* read() returns b"" at once, never times out, and the loop goes round
\* without end: the task has no step then.
StartDrained(t) ==
    /\ pc[t] = "drain"
    /\ LET s == ex[t].s
       IN  /\ alive[s] = "running"
           /\ pipe' = [pipe EXCEPT ![s] = << >>]
           /\ IF op[t] = "start"
              THEN /\ Done(t, Returned("none", s))
                   /\ UNCHANGED <<sessions, handed>>
              ELSE /\ sessions' = Put(sessions, container[s], s)
                   /\ handed' = [handed EXCEPT ![s] = TRUE]
                   /\ Done(t, Returned("session", s))
    /\ UNCHANGED <<now, ops, ncalls, nsess, container, process, is_closed, lock, waiters,
                   last_command_at, commands_executed, alive, spawned, pending>>

\* ExegolSession.close up to its first suspension, for a session whose closed
\* flag is cl: it returns at once, raises, or waits for the process to end.
\*   "return"  already closed, or never started (the flags are set at once)
\*   "raise"   the transport is closed: drain() raises, and the handler's
\*             process.kill() raises ProcessLookupError out of close()
\*   "wait"    "exit" is written; wait_for(process.wait(), 2.0) suspends
CloseOutcome(s, cl) ==
    IF cl[s] \/ process[s] = "none" THEN "return"
    ELSE IF alive[s] = "reaped" THEN "raise"
    ELSE "wait"

LoopResult(kind, map, cl, count, rest, s, err) ==
    [kind |-> kind, map |-> map, cl |-> cl, count |-> count, rest |-> rest,
     s |-> s, err |-> err]

\* The loop of cleanup_idle_sessions over containers_to_close (close_session
\* for each), run until it suspends, raises or ends.  The log line of the loop
\* reads self.sessions[container_name], a KeyError when the entry is gone.
RECURSIVE CloseSessions(_, _, _, _)
CloseSessions(list, map, cl, count) ==
    IF list = << >> THEN LoopResult("done", map, cl, count, << >>, 0, "")
    ELSE LET c == Head(list)
             s == Get(map, c)
         IN  IF ~Has(map, c) THEN LoopResult("raise", map, cl, count, << >>, 0, "keyerror")
             ELSE IF CloseOutcome(s, cl) = "return"
                  THEN CloseSessions(Tail(list), Del(map, c), [cl EXCEPT ![s] = TRUE],
                                     count + 1)
                  ELSE IF CloseOutcome(s, cl) = "raise"
                       THEN LoopResult("raise", map, cl, count, << >>, s, "lookup")
                       ELSE LoopResult("wait", map, cl, count, list, s, "")

\* The loop of close_all_sessions over list(self.sessions.values()), then
\* self.sessions.clear().
RECURSIVE CloseAll(_, _, _)
CloseAll(list, map, cl) ==
    IF list = << >> THEN LoopResult("done", << >>, cl, 0, << >>, 0, "")
    ELSE LET s == Head(list)
         IN  IF CloseOutcome(s, cl) = "return"
             THEN CloseAll(Tail(list), map, [cl EXCEPT ![s] = TRUE])
             ELSE IF CloseOutcome(s, cl) = "raise"
                  THEN LoopResult("raise", map, cl, 0, << >>, s, "lookup")
                  ELSE LoopResult("wait", map, cl, 0, list, s, "")

\* what the call returns when its loop is over
Outcome(name, r) ==
    IF name = "close_session" THEN Returned("bool", 1)
    ELSE IF name = "close_all_sessions" THEN Returned("none", 0)
    ELSE [Returned("count", 0) EXCEPT !.n = r.count]

\* the task goes on as its loop r says
Continue(t, name, r) ==
    /\ sessions' = r.map
    /\ is_closed' = r.cl
    /\ IF r.kind = "done" THEN Done(t, Outcome(name, r))
       ELSE IF r.kind = "raise" THEN Done(t, Raised(r.err, r.s))
       ELSE /\ Await(t, name, "close_wait",
                     [NoEx EXCEPT !.s = r.s, !.closed_count = r.count])
            /\ todo' = [todo EXCEPT ![t] = r.rest]
            /\ UNCHANGED res

\* SessionManager.close_session(container_name)
CloseSession(t, c) ==
    /\ Call(t, "close_session")
    /\ IF ~Has(sessions, c)
       THEN Done(t, Returned("bool", 0)) /\ UNCHANGED <<sessions, is_closed>>
       ELSE Continue(t, "close_session", CloseSessions(<<c>>, sessions, is_closed, 0))
    /\ UNCHANGED <<now, ncalls, nsess, container, process, lock, waiters,
                   last_command_at, commands_executed, handed, procVars>>

\* SessionManager.close_all_sessions()
CloseAllSessions(t) ==
    /\ Call(t, "close_all_sessions")
    /\ Continue(t, "close_all_sessions",
                CloseAll([i \in 1..Len(sessions) |-> sessions[i].s], sessions, is_closed))
    /\ UNCHANGED <<now, ncalls, nsess, container, process, lock, waiters,
                   last_command_at, commands_executed, handed, procVars>>

\* SessionManager.cleanup_idle_sessions(): one sweep of the reaper
CleanupIdleSessions(t) ==
    /\ Call(t, "cleanup_idle_sessions")
    /\ LET idle == SelectSeq(sessions, LAMBDA e : IsIdle(e.s))
           containers_to_close == [i \in 1..Len(idle) |-> idle[i].c]
       IN  Continue(t, "cleanup_idle_sessions",
                    CloseSessions(containers_to_close, sessions, is_closed, 0))
    /\ UNCHANGED <<now, ncalls, nsess, container, process, lock, waiters,
                   last_command_at, commands_executed, handed, procVars>>

\* process.wait() returned in ExegolSession.close (the shell obeyed "exit", or
\* was killed after 2 s): the session is marked closed, the handle dropped,
\* and the caller's loop goes on.
CloseWait(t) ==
    /\ pc[t] = "close_wait"
    /\ LET s == ex[t].s
           cl == [is_closed EXCEPT ![s] = TRUE]
           c == Head(todo[t])
       IN  /\ process' = [process EXCEPT ![s] = "none"]
           /\ alive' = [alive EXCEPT ![s] = "reaped"]
           /\ pending' = [pending EXCEPT ![s] = << >>]
           /\ IF op[t] = "close_all_sessions"
              THEN Continue(t, op[t], CloseAll(Tail(todo[t]), sessions, cl))
              ELSE IF ~Has(sessions, c)
                   THEN Continue(t, op[t],
                                 LoopResult("raise", sessions, cl, 0, << >>, s, "keyerror"))
                   ELSE Continue(t, op[t],
                                 CloseSessions(Tail(todo[t]), Del(sessions, c), cl,
                                               ex[t].closed_count + 1))
    /\ UNCHANGED <<now, ops, ncalls, nsess, container, lock, waiters, last_command_at,
                   commands_executed, handed, spawned, pipe>>

\* self._cleanup_task and not self._cleanup_task.done()
CleanupRunning == cleanup_task # 0 /\ pc[cleanup_task] # "done"

\* session.get_info(), as an entry of get_all_sessions_info for container c
InfoOf(c, s) ==
    [c |-> c, s |-> s, is_active |-> process[s] # "none" /\ ~is_closed[s],
     n |-> commands_executed[s]]

\* len(self.sessions)
TotalSessionsActive(m) == Len(SelectSeq(m, LAMBDA e : IsActive(e.s)))
TotalSessions(m) == Len(m)

\* SessionManager.get_all_sessions_info(): the size of the map and the
\* get_info() of every item of it
GetAllSessionsInfo(t) ==
    /\ Call(t, "get_all_sessions_info")
    /\ Done(t, [Returned("all_info", 0) EXCEPT
                   !.n = TotalSessions(sessions),
                   !.infos = [i \in 1..Len(sessions) |->
                                 InfoOf(sessions[i].c, sessions[i].s)]])
    /\ UNCHANGED <<now, ncalls, sessions, nsess, sessVars, procVars>>

\* SessionManager.start_cleanup_task(): creates the task that runs
\* cleanup_loop and keeps its handle, unless the task of the handle is running
\* (then it only logs a warning).  The new task is the first one not yet used.
StartCleanupTask ==
    /\ ~CleanupRunning
    /\ \E r \in ReaperTasks :
          /\ pc[r] = "idle"
          /\ \A q \in ReaperTasks : q < r => pc[q] # "idle"
          /\ pc' = [pc EXCEPT ![r] = "sleep"]
          /\ op' = [op EXCEPT ![r] = "cleanup_loop"]
          /\ cleanup_task' = r
    /\ UNCHANGED <<now, ops, ncalls, sessions, nsess, sessVars, procVars, ex, todo, res>>

\* cleanup_loop in task r: sleep(interval) is over and cleanup_idle_sessions()
\* runs up to its first suspension
ReaperSweepOf(r) ==
    /\ pc[r] = "sleep"
    /\ LET idle == SelectSeq(sessions, LAMBDA e : IsIdle(e.s))
           containers_to_close == [i \in 1..Len(idle) |-> idle[i].c]
       IN  Continue(r, "cleanup_loop",
                    CloseSessions(containers_to_close, sessions, is_closed, 0))
    /\ UNCHANGED <<now, ops, ncalls, nsess, container, process, lock, waiters,
                   last_command_at, commands_executed, handed, procVars>>
ReaperSweep == ReaperSweepOf(Reaper)

\* SessionManager.stop_cleanup_task() up to its first suspension: with a
\* handle, the task is cancelled and awaited.  A task that is done is awaited
\* without suspension, and the handle is dropped at once.
StopCleanupTask(t) ==
    /\ Call(t, "stop_cleanup_task")
    /\ IF cleanup_task = 0
       THEN Done(t, Returned("none", 0))
       ELSE IF pc[cleanup_task] = "done"
            THEN /\ cleanup_task' = 0
                 /\ res' = [res EXCEPT ![t] = Returned("none", 0)]
                 /\ UNCHANGED <<pc, op, ex, todo>>
            ELSE /\ pc' = [pc EXCEPT ![t] = "stop_wait", ![cleanup_task] = "cancelled"]
                 /\ op' = [op EXCEPT ![t] = "stop_cleanup_task"]
                 /\ ex' = [ex EXCEPT ![t] = [NoEx EXCEPT !.awaited = cleanup_task]]
                 /\ UNCHANGED <<todo, res, cleanup_task>>
    /\ UNCHANGED <<now, ncalls, sessions, nsess, sessVars, procVars>>

\* cleanup_loop in task r: CancelledError is raised at its await (the sleep,
\* or the wait inside the close() of session ex[r].s, which no handler of
\* close(), close_session or cleanup_idle_sessions catches) and caught by the
\* loop (except asyncio.CancelledError: break); the task is done
LoopCancelled(r) ==
    /\ pc[r] = "cancelled"
    /\ pc' = [pc EXCEPT ![r] = "done"]
    /\ ex' = [ex EXCEPT ![r] = NoEx]
    /\ todo' = [todo EXCEPT ![r] = << >>]
    /\ res' = [res EXCEPT ![r] = Raised("cancelled", ex[r].s)]
    /\ UNCHANGED <<now, ops, ncalls, sessions, nsess, sessVars, procVars, op,
                   cleanup_task>>

\* stop_cleanup_task() after "await self._cleanup_task": the handle is set to
\* None
StopResume(t) ==
    /\ pc[t] = "stop_wait"
    /\ pc[ex[t].awaited] = "done"
    /\ cleanup_task' = 0
    /\ pc' = [pc EXCEPT ![t] = "idle"]
    /\ op' = [op EXCEPT ![t] = "none"]
    /\ ex' = [ex EXCEPT ![t] = NoEx]
    /\ res' = [res EXCEPT ![t] = Returned("none", 0)]
    /\ UNCHANGED <<now, ops, ncalls, sessions, nsess, sessVars, procVars, todo>>

Next ==
    \/ Tick
    \/ \E s \in SessionIds : ShellEmit(s) \/ Kill(s) \/ Reap(s)
    \/ \E t \in Tasks, c \in Containers : GetOrCreateSession(t, c)
    \/ \E t \in Tasks : StartSpawned(t) \/ StartFails(t) \/ StartDrained(t)
    \/ \E t \in Tasks, s \in SessionIds, cmd \in Commands, timeout \in Timeouts :
           Exec(t, s, cmd, timeout)
    \/ \E t \in Tasks : ExecWake(t) \/ ExecLine(t) \/ ExecEOF(t) \/ ExecPoll(t)
    \/ \E t \in Tasks, c \in Containers : CloseSession(t, c)
    \/ \E t \in Tasks : CloseAllSessions(t) \/ CleanupIdleSessions(t) \/ CloseWait(t)

Spec == Init /\ [][Next]_vars

\* One caller, every command of AllCommands: the framing protocol by itself.
NextFraming ==
    \/ Tick
    \/ \E s \in SessionIds : ShellEmit(s) \/ Kill(s) \/ Reap(s)
    \/ \E c \in Containers : GetOrCreateSession(1, c)
    \/ StartSpawned(1) \/ StartFails(1) \/ StartDrained(1)
    \/ \E s \in SessionIds, cmd \in AllCommands, timeout \in Timeouts :
           Exec(1, s, cmd, timeout)
    \/ ExecLine(1) \/ ExecEOF(1) \/ ExecPoll(1)

SpecFraming == Init /\ [][NextFraming]_vars

\* Three callers of one session: the queue of the session's lock.  The run
\* starts when get_or_create_session("c1") has returned session 1 (calls are
\* counted from there); every call is an exec().
InitQueue ==
    /\ now = 0 /\ ops = 0 /\ ncalls = 0 /\ nsess = 1
    /\ sessions = << [c |-> "c1", s |-> 1] >>
    /\ container = [s \in SessionIds |-> "c1"]
    /\ process = [s \in SessionIds |-> IF s = 1 THEN "proc" ELSE "none"]
    /\ is_closed = [s \in SessionIds |-> FALSE]
    /\ lock = [s \in SessionIds |-> 0]
    /\ waiters = [s \in SessionIds |-> << >>]
    /\ last_command_at = [s \in SessionIds |-> 0]
    /\ commands_executed = [s \in SessionIds |-> 0]
    /\ alive = [s \in SessionIds |-> IF s = 1 THEN "running" ELSE "none"]
    /\ spawned = [s \in SessionIds |-> IF s = 1 THEN 1 ELSE 0]
    /\ pending = [s \in SessionIds |-> << >>]
    /\ pipe = [s \in SessionIds |-> << >>]
    /\ handed = [s \in SessionIds |-> s = 1]
    /\ pc = [t \in TaskIds |-> "idle"]
    /\ op = [t \in TaskIds |-> "none"]
    /\ ex = [t \in TaskIds |-> NoEx]
    /\ todo = [t \in TaskIds |-> << >>]
    /\ res = [t \in TaskIds |-> NoRes]
    /\ cleanup_task = 0

NextQueue ==
    \/ Tick
    \/ \E s \in SessionIds : ShellEmit(s) \/ Kill(s) \/ Reap(s)
    \/ \E t \in AllTasks, s \in SessionIds, timeout \in Timeouts :
           Exec(t, s, CmdEcho, timeout)
    \/ \E t \in AllTasks : ExecWake(t) \/ ExecLine(t) \/ ExecEOF(t) \/ ExecPoll(t)

SpecQueue == InitQueue /\ [][NextQueue]_vars

\* The queue of the session's lock, with callers whose tasks may be cancelled
NextCancel ==
    \/ Tick
    \/ \E s \in SessionIds : ShellEmit(s) \/ Kill(s) \/ Reap(s)
    \/ \E t \in AllTasks, s \in SessionIds, timeout \in Timeouts :
           Exec(t, s, CmdEcho, timeout)
    \/ \E t \in AllTasks : ExecWake(t) \/ ExecLine(t) \/ ExecEOF(t) \/ ExecPoll(t)
    \/ \E t \in AllTasks : Cancel(t)

SpecCancel == InitQueue /\ [][NextCancel]_vars

\* Timed reads.  The clock counts whole seconds and wait_for(readline(), 1.0)
\* lasts at most one of them: a second passes for every reader, and no further
\* second passes before each reader whose wait lasted one has been resumed.
TickTimed ==
    /\ now < MaxTime
    /\ \A t \in TaskIds : pc[t] = "read" => ~ex[t].waited
    /\ now' = now + 1
    /\ ex' = [t \in TaskIds |->
                 IF pc[t] = "read" THEN [ex[t] EXCEPT !.waited = TRUE] ELSE ex[t]]
    /\ UNCHANGED <<ops, ncalls, sessions, nsess, sessVars, procVars, pc, op, todo, res,
                   cleanup_task>>

\* wait_for raised TimeoutError: the second of the wait has passed
ExecPollTimed(t) == ex[t].waited /\ ExecPoll(t)

\* Two callers of one started session, under timed reads, with the default
\* timeout or a timeout of no seconds
TimedTimeouts == {0, DefaultTimeout}
NextTimed ==
    \/ TickTimed
    \/ \E s \in SessionIds : ShellEmit(s) \/ Kill(s) \/ Reap(s)
    \/ \E t \in Tasks, s \in SessionIds, timeout \in TimedTimeouts :
           Exec(t, s, CmdEcho, timeout)
    \/ \E t \in Tasks : ExecWake(t) \/ ExecLine(t) \/ ExecEOF(t) \/ ExecPollTimed(t)

SpecTimed == InitQueue /\ [][NextTimed]_vars

\* The metrics of a session: two callers of a started session and of the
\* registry
NextMetrics ==
    \/ Tick
    \/ \E s \in SessionIds : ShellEmit(s) \/ Kill(s) \/ Reap(s)
    \/ \E t \in Tasks, c \in Containers : GetOrCreateSession(t, c) \/ CloseSession(t, c)
    \/ \E t \in Tasks : StartSpawned(t) \/ StartFails(t) \/ StartDrained(t)
    \/ \E t \in Tasks, s \in SessionIds, timeout \in Timeouts :
           Exec(t, s, CmdEcho, timeout)
    \/ \E t \in Tasks, s \in SessionIds : GetInfo(t, s)
    \/ \E t \in Tasks : ExecWake(t) \/ ExecLine(t) \/ ExecEOF(t) \/ ExecPoll(t)
    \/ \E t \in Tasks : CloseAllSessions(t) \/ CleanupIdleSessions(t) \/ CloseWait(t)

SpecMetrics == InitQueue /\ [][NextMetrics]_vars

\* The cleanup task: start_cleanup_task and two callers of stop_cleanup_task
NextCleanupTask ==
    \/ StartCleanupTask
    \/ \E t \in Tasks : StopCleanupTask(t) \/ StopResume(t)
    \/ \E r \in ReaperTasks : ReaperSweepOf(r) \/ LoopCancelled(r)

SpecCleanupTask == Init /\ [][NextCleanupTask]_vars

\* Two sessions side by side.  The run starts when get_or_create_session has
\* returned session 1 for "c1" and session 2 for "c2" (calls are counted from
\* there); two callers exec() on session 1, whose subprocess may be killed,
\* and, while both are busy, a third on session 2, under timed reads.
InitTwo ==
    /\ now = 0 /\ ops = 0 /\ ncalls = 0 /\ nsess = 2
    /\ sessions = << [c |-> "c1", s |-> 1], [c |-> "c2", s |-> 2] >>
    /\ container = [s \in SessionIds |-> IF s = 2 THEN "c2" ELSE "c1"]
    /\ process = [s \in SessionIds |-> IF s <= 2 THEN "proc" ELSE "none"]
    /\ is_closed = [s \in SessionIds |-> FALSE]
    /\ lock = [s \in SessionIds |-> 0]
    /\ waiters = [s \in SessionIds |-> << >>]
    /\ last_command_at = [s \in SessionIds |-> 0]
    /\ commands_executed = [s \in SessionIds |-> 0]
    /\ alive = [s \in SessionIds |-> IF s <= 2 THEN "running" ELSE "none"]
    /\ spawned = [s \in SessionIds |-> IF s <= 2 THEN 1 ELSE 0]
    /\ pending = [s \in SessionIds |-> << >>]
    /\ pipe = [s \in SessionIds |-> << >>]
    /\ handed = [s \in SessionIds |-> s <= 2]
    /\ pc = [t \in TaskIds |-> "idle"]
    /\ op = [t \in TaskIds |-> "none"]
    /\ ex = [t \in TaskIds |-> NoEx]
    /\ todo = [t \in TaskIds |-> << >>]
    /\ res = [t \in TaskIds |-> NoRes]
    /\ cleanup_task = 0

NextTwo ==
    \/ TickTimed
    \/ \E s \in SessionIds : ShellEmit(s)
    \/ Kill(1) \/ Reap(1)
    \/ \E t \in Tasks, timeout \in Timeouts : Exec(t, 1, CmdEcho, timeout)
    \/ \E timeout \in Timeouts : Exec(3, 2, CmdEcho, timeout)
    \/ \E t \in AllTasks : ExecWake(t) \/ ExecLine(t) \/ ExecEOF(t) \/ ExecPollTimed(t)

SpecTwo == InitTwo /\ [][NextTwo]_vars

\* Reading the state: two callers that get, use and inspect the sessions of
\* two containers, with the cleanup task started or not
NextInfo ==
    \/ \E s \in SessionIds : ShellEmit(s) \/ Kill(s) \/ Reap(s)
    \/ \E t \in Tasks, c \in AllContainers : GetOrCreateSession(t, c)
    \/ \E t \in Tasks : StartSpawned(t) \/ StartDrained(t)
    \/ \E t \in Tasks, s \in SessionIds, timeout \in Timeouts :
           Exec(t, s, CmdEcho, timeout)
    \/ \E t \in Tasks : ExecWake(t) \/ ExecLine(t) \/ ExecEOF(t) \/ ExecPoll(t)
    \/ \E t \in Tasks, s \in SessionIds : GetInfo(t, s)
    \/ \E t \in Tasks : GetAllSessionsInfo(t)
    \/ StartCleanupTask

SpecInfo == InitQueue /\ [][NextInfo]_vars

\* A subprocess that may stop reading its input: two callers of one started
\* session.  Time passes, and the event loop resumes every call whose await
\* is over.
NextStall ==
    \/ Tick
    \/ \E s \in SessionIds : ShellEmit(s) \/ Kill(s) \/ Reap(s) \/ Stall(s)
    \/ \E t \in Tasks, s \in SessionIds, timeout \in Timeouts :
           Exec(t, s, CmdEcho, timeout)
    \/ \E t \in Tasks : ExecWake(t) \/ ExecLine(t) \/ ExecEOF(t) \/ ExecPoll(t)
    \/ \E t \in Tasks : ExecWriteFails(t)

SpecStall == InitQueue /\ [][NextStall]_vars
ResumeExec(t) ==
    \/ ExecWake(t) \/ ExecLine(t) \/ ExecEOF(t) \/ ExecPoll(t)
    \/ ExecWriteFails(t)
SpecStallFair == SpecStall /\ WF_vars(Tick) /\ \A t \in Tasks : WF_vars(ResumeExec(t))

\* Stopping the cleanup task: one caller that gets the session of a container
\* and stops the task, which sweeps meanwhile
NextStop ==
    \/ Tick
    \/ \E s \in SessionIds : Kill(s) \/ Reap(s)
    \/ \E c \in Containers : GetOrCreateSession(1, c)
    \/ StartSpawned(1) \/ StartFails(1) \/ StartDrained(1)
    \/ StartCleanupTask
    \/ \E r \in ReaperTasks : ReaperSweepOf(r) \/ CloseWait(r) \/ LoopCancelled(r)
    \/ StopCleanupTask(1) \/ StopResume(1)

SpecStop == Init /\ [][NextStop]_vars

\* The life of a session: two callers that get, start, use and close the
\* session of one container.
NextLifecycle ==
    \/ Tick
    \/ \E s \in SessionIds : ShellEmit(s) \/ Kill(s) \/ Reap(s)
    \/ \E t \in Tasks, c \in Containers : GetOrCreateSession(t, c) \/ CloseSession(t, c)
    \/ \E t \in Tasks, s \in SessionIds : Start(t, s)
    \/ \E t \in Tasks : StartSpawned(t) \/ StartFails(t) \/ StartDrained(t)
    \/ \E t \in Tasks, s \in SessionIds, timeout \in Timeouts :
           Exec(t, s, CmdEcho, timeout)
    \/ \E t \in Tasks : ExecWake(t) \/ ExecLine(t) \/ ExecEOF(t) \/ ExecPoll(t)
    \/ \E t \in Tasks : CloseWait(t)

SpecLifecycle == Init /\ [][NextLifecycle]_vars

\* The event loop resumes every coroutine whose await is over: a task that
\* can take its next step takes it.  Nothing is assumed of the callers, the
\* clock or the subprocess.
Resume(t) ==
    \/ StartSpawned(t) \/ StartFails(t) \/ StartDrained(t)
    \/ ExecWake(t) \/ ExecLine(t) \/ ExecEOF(t) \/ ExecPoll(t)
    \/ CloseWait(t)
SpecLifecycleFair == SpecLifecycle /\ \A t \in Tasks : WF_vars(Resume(t))

\* The idle reaper: one caller that gets and uses the sessions of two
\* containers, and the cleanup task.
NextReaper ==
    \/ Tick
    \/ \E s \in SessionIds : ShellEmit(s) \/ Kill(s) \/ Reap(s)
    \/ \E c \in AllContainers : GetOrCreateSession(1, c)
    \/ StartSpawned(1) \/ StartFails(1) \/ StartDrained(1)
    \/ \E s \in SessionIds, timeout \in Timeouts : Exec(1, s, CmdEcho, timeout)
    \/ ExecLine(1) \/ ExecEOF(1) \/ ExecPoll(1)
    \/ StartCleanupTask \/ ReaperSweep \/ CloseWait(Reaper)

SpecReaper == Init /\ [][NextReaper]_vars
\* sleep(interval) ends, and the event loop resumes the two tasks
SpecReaperFair ==
    SpecReaper /\ WF_vars(ReaperSweep) /\ WF_vars(Resume(Reaper)) /\ WF_vars(Resume(1))

\* ------------------------------------------------------------------ claims

\* task t is inside the write-then-read loop of exec() on session s
InFlight(t, s) == pc[t] = "read" /\ ex[t].s = s
\* task t's coroutine ran in this step
Ended(t) == pc[t] = "read" /\ pc'[t] = "idle"
\* task t's readline() is about to return the line / end-of-stream
NextLine(t) == Head(pipe[ex[t].s])
LineNext(t) == pc[t] = "read" /\ pipe[ex[t].s] # << >>
EOFNext(t) == pc[t] = "read" /\ pipe[ex[t].s] = << >>
                 /\ alive[ex[t].s] \in {"dead", "reaped"}
\* task t read a line in this step
ReadsLine(t) == LineNext(t) /\ pipe'[ex[t].s] = Tail(pipe[ex[t].s])
\* task t's call returned a result in this step
ReturnsResult(t) == Ended(t) /\ res'[t].kind = "result"
DeathErrors == {"write", "died"}

\* C1: at most one exec() per session is inside its write-then-read loop, and
\* it is the one holding the lock; a framed command is written, and a line is
\* read, only by a call that no other call of the session is in flight with.
C1_OneInFlight ==
    \A s \in SessionIds : \A t, u \in Tasks :
        /\ (InFlight(t, s) /\ InFlight(u, s)) => t = u
        /\ InFlight(t, s) => lock[s] = t
C1_ExclusivePipes ==
    \A s \in SessionIds :
        /\ Len(pending'[s]) > Len(pending[s])
              => \A u \in Tasks : ~InFlight(u, s)
        /\ (pipe[s] # << >> /\ pipe'[s] = Tail(pipe[s]))
              => Cardinality({u \in Tasks : InFlight(u, s)}) = 1
C1_MutualExclusion == []C1_OneInFlight /\ [][C1_ExclusivePipes]_vars
\* a second caller is queued on the lock of a session with a call in flight
C1_Witness ==
    \E t, u \in Tasks : pc[t] = "read" /\ pc[u] = "lock" /\ ex[u].s = ex[t].s
                         /\ pending[ex[t].s] # << >>

\* C2: the stdout of every result holds only lines printed for that call's own
\* command.
C2_OwnOutputOnly ==
    \A t \in Tasks : res[t].kind = "result" =>
        \A i \in 1..Len(res[t].stdout) : res[t].stdout[i].call = res[t].call

\* C3: for every container at most one session is started and not closed,
\* whether or not the registry's map still refers to it.
StartedNotClosed(s) == s <= nsess /\ process[s] = "proc" /\ ~is_closed[s]
C3_OneLiveSessionPerContainer ==
    \A c \in AllContainers :
        Cardinality({s \in SessionIds : StartedNotClosed(s) /\ container[s] = c}) <= 1

\* C4: when a sweep of cleanup_idle_sessions starts to close a session, no
\* exec() is in flight on it.
C4_StartsClose(t, s) ==
    /\ pc[t] # "close_wait" /\ pc'[t] = "close_wait"
    /\ op'[t] = "cleanup_idle_sessions" /\ ex'[t].s = s
C4_ReaperSparesInFlight ==
    [][\A t \in Tasks, s \in SessionIds :
          C4_StartsClose(t, s) => \A u \in Tasks : ~InFlight(u, s)]_vars

\* C5: an exec() that fails because the process died leaves the session
\* marked closed, and get_or_create_session never returns a session on which
\* an exec() failed that way.
C5_FailureMarksClosed ==
    \A t \in Tasks : (res[t].kind = "error" /\ res[t].err \in DeathErrors)
                        => is_closed[res[t].s]
C5_FreshAfterDeath ==
    \A u \in Tasks : (res'[u] # res[u] /\ res'[u].kind = "session") =>
        \A t \in Tasks : ~(res[t].kind = "error" /\ res[t].err \in DeathErrors
                              /\ res[t].s = res'[u].s)
C5_DeadSessionRecovery == []C5_FailureMarksClosed /\ [][C5_FreshAfterDeath]_vars

\* C6: when readline() reports end-of-stream before the end marker, the call
\* raises the session-died error, returns no result, marks the session closed,
\* and neither spawns a process nor writes the command again.
C6_DiedIsClosed ==
    \A t \in Tasks : (res[t].kind = "error" /\ res[t].err = "died")
                        => is_closed[res[t].s] /\ spawned[res[t].s] = 1
C6_EOFStep ==
    \A t \in Tasks : (EOFNext(t) /\ (pc'[t] # pc[t] \/ ex'[t] # ex[t])) =>
        /\ res'[t] = Raised("died", ex[t].s)
        /\ pc'[t] = "idle"
        /\ is_closed'[ex[t].s]
        /\ lock'[ex[t].s] = 0
        /\ UNCHANGED <<process, alive, spawned, pending, pipe, nsess, sessions, ncalls>>
C6_EndOfStream == []C6_DiedIsClosed /\ [][C6_EOFStep]_vars
\* an exec() died at end-of-stream; its session is closed, still holds its
\* one process handle, and is still the registry's entry
C6_Witness ==
    \E t \in Tasks : /\ res[t].kind = "error" /\ res[t].err = "died"
                      /\ is_closed[res[t].s] /\ process[res[t].s] = "proc"
                      /\ Get(sessions, container[res[t].s]) = res[t].s

\* C7: when the timeout has elapsed and the next thing read is neither the end
\* marker nor end-of-stream, the call returns a result with timed_out set,
\* exit code -1 and the lines read so far; the closed flag, the process handle
\* and the registry are as before and the lock is free.  No result is marked
\* timed out before the timeout elapsed.
Deadline(t) == now - ex[t].start_time > ex[t].timeout
C7_IsPrefix(a, b) == Len(a) <= Len(b) /\ \A i \in 1..Len(a) : a[i] = b[i]
C7_TimeoutStep ==
    \A t \in Tasks :
        /\ (Ended(t) /\ Deadline(t) /\ ~EOFNext(t)
              /\ ~(LineNext(t) /\ HasMarker(NextLine(t).toks, ex[t].marker))) =>
              /\ res'[t].kind = "result"
              /\ res'[t].timed_out
              /\ res'[t].exit_code = -1
              /\ C7_IsPrefix(ex[t].stdout_lines, res'[t].stdout)
              /\ Len(res'[t].stdout) <= Len(ex[t].stdout_lines) + 1
              /\ lock'[ex[t].s] = 0
              /\ UNCHANGED <<is_closed, process, sessions>>
        /\ (ReturnsResult(t) /\ res'[t].timed_out) => Deadline(t)
        /\ (pc[t] = "read" /\ pc'[t] = "read" /\ ex'[t] # ex[t]) => ~Deadline(t)
C8_ExitCodeFidelity ==
    \A t \in Tasks : (res[t].kind = "result" /\ ~res[t].timed_out)
                        => res[t].exit_code = res[t].cmd.status

\* C9: a result for which no sentinel line was parsed has exit code -1.
C9_IndeterminateIsMinusOne ==
    \A t \in Tasks : (res[t].kind = "result" /\ ~res[t].seen_exit)
                        => res[t].exit_code = -1

\* C10 as stated: the read loop ends successfully only on a line that is
\* exactly the call's end marker.
C10_EndsOnExactMarker ==
    [][\A t \in Tasks : (ReturnsResult(t) /\ ~res'[t].timed_out) =>
          (LineNext(t) /\ NextLine(t).toks = <<MarkTok(ex[t].marker)>>)]_vars
\* C10 as amended: the read loop ends successfully exactly on the first line
\* that contains the call's end marker, alone or with other text around it; a
\* line without it, the end marker of another call included, never ends the
\* loop successfully, and another call's end marker goes to stdout.
C10_MarkerStep ==
    \A t \in Tasks :
        /\ (ReturnsResult(t) /\ ~res'[t].timed_out) =>
              (ReadsLine(t) /\ HasMarker(NextLine(t).toks, ex[t].marker))
        /\ (ReadsLine(t) /\ HasMarker(NextLine(t).toks, ex[t].marker)) =>
              (ReturnsResult(t) /\ ~res'[t].timed_out
               /\ res'[t].stdout = ex[t].stdout_lines)
        /\ (ReadsLine(t) /\ \E m \in 1..MaxOps + 1 :
                               m # ex[t].marker /\ NextLine(t).toks = <<MarkTok(m)>>) =>
              \/ pc'[t] = "read" /\ ex'[t].stdout_lines = Append(ex[t].stdout_lines, NextLine(t))
              \/ ReturnsResult(t) /\ res'[t].timed_out
                    /\ res'[t].stdout = Append(ex[t].stdout_lines, NextLine(t))
C10_EndsOnLineWithMarker == [][C10_MarkerStep]_vars
\* a call whose marker line carries other text ended successfully, after it
\* took an earlier call's end marker as output
C10_Witness ==
    \E t \in Tasks :
        /\ res[t].kind = "result" /\ ~res[t].timed_out /\ res[t].cmd = CmdBackground
        /\ \E i \in 1..Len(res[t].stdout) :
              /\ res[t].stdout[i].call # res[t].call
              /\ res[t].stdout[i].toks = <<MarkTok(res[t].stdout[i].call)>>

\* C11: the stdout of a result is, in the order read, the lines the call read
\* that neither contain its end marker nor start with the exit-code sentinel:
\* every such line is appended when it is read, a sentinel line and the end
\* marker line are consumed, and nothing else changes the buffer, which is
\* empty when the framed command is written.
C11_Sentinel(toks) == toks # << >> /\ Head(toks) = ExitTok
C11_Kept(t) == /\ ~HasMarker(NextLine(t).toks, ex[t].marker)
               /\ ~C11_Sentinel(NextLine(t).toks)
C11_After(t) == IF ReadsLine(t) /\ C11_Kept(t)
                THEN Append(ex[t].stdout_lines, NextLine(t))
                ELSE ex[t].stdout_lines
C11_BufferStep ==
    \A t \in Tasks :
        /\ (pc[t] = "read" /\ pc'[t] = "read") => ex'[t].stdout_lines = C11_After(t)
        /\ ReturnsResult(t) => res'[t].stdout = C11_After(t)
        /\ (pc[t] # "read" /\ pc'[t] = "read") => ex'[t].stdout_lines = << >>
C12_Starts(t, s) == pc[t] # "read" /\ pc'[t] = "read" /\ ex'[t].s = s
C12_Submitted(t) == IF pc[t] = "lock" THEN ex[t].submitted ELSE ops + 1
C12_QueueInOrder ==
    \A s \in SessionIds :
        /\ \A i, j \in 1..Len(waiters[s]) :
              i < j => ex[waiters[s][i]].submitted < ex[waiters[s][j]].submitted
        /\ \A t \in AllTasks :
              (pc[t] = "lock" /\ ex[t].s = s) <=>
                  \E i \in 1..Len(waiters[s]) : waiters[s][i] = t
C12_WriteStep ==
    \A t \in AllTasks, s \in SessionIds :
        C12_Starts(t, s) =>
            \A u \in AllTasks \ {t} :
                /\ ~InFlight(u, s)
                /\ (pc[u] = "lock" /\ ex[u].s = s) => ex[u].submitted > C12_Submitted(t)
C12_SubmissionOrder == []C12_QueueInOrder /\ [][C12_WriteStep]_vars
\* tasks 2 and 3 were queued together behind the call of task 1 (a call is
\* run by task 3 only when tasks 1 and 2 are busy); that call has ended, task 2
\* was woken and is in its read loop, task 3 still waits
C12_Witness ==
    /\ res[1].kind = "result" /\ res[1].call = 1 /\ pc[1] = "idle"
    /\ pc[2] = "read" /\ ex[2].marker = 2
    /\ pc[3] = "lock" /\ ex[3].s = ex[2].s /\ ex[3].submitted = 3

\* the task that runs the call started in this step
Caller(t) == /\ pc[t] = "idle" /\ ops' = ops + 1
             /\ \A u \in AllTasks : u < t => pc[u] # "idle"
\* close_session returned True in this step, after session s's close()
\* returned: at once, or after it waited for the process to end
CloseSessionReturned(t, s) ==
    \/ /\ Caller(t) /\ pc'[t] = "idle" /\ res'[t] = Returned("bool", 1)
       /\ \E c \in AllContainers : Has(sessions, c) /\ Get(sessions, c) = s
                                      /\ ~Has(sessions', c)
    \/ /\ pc[t] = "close_wait" /\ op[t] = "close_session" /\ ex[t].s = s
       /\ pc'[t] = "idle" /\ res'[t] = Returned("bool", 1)

\* C13: when a session's close() has returned (here: inside a close_session
\* that returned True), the session is marked closed and holds no process
\* handle, whatever its state was before.
C13_CloseReleasesHandle ==
    [][\A t \in Tasks, s \in SessionIds :
          CloseSessionReturned(t, s) => (is_closed'[s] /\ process'[s] = "none")]_vars

\* get_or_create_session returned session s in this step: the cached one at
\* once (reuse), or a new one when its start() returned (create)
ReusedSession(t, s) ==
    Caller(t) /\ pc'[t] = "idle" /\ res'[t] = Returned("session", s)
CreatedSession(t, s) ==
    /\ pc[t] = "drain" /\ op[t] = "get_or_create_session"
    /\ pc'[t] = "idle" /\ res'[t] = Returned("session", s)
HandsOut(t, s) == ReusedSession(t, s) \/ CreatedSession(t, s)

\* C14: a session marked closed stays marked closed; a start() or an exec()
\* called on it raises at once (it neither spawns, nor queues, nor writes, nor
\* returns a result); get_or_create_session never returns it.
C14_TerminalStep ==
    /\ \A s \in SessionIds : is_closed[s] => is_closed'[s]
    /\ \A t \in Tasks :
          /\ (Caller(t) /\ pc'[t] # "idle") => ~is_closed[ex'[t].s]
          /\ (Caller(t) /\ pc'[t] = "idle") => res'[t].kind # "result"
          /\ \A s \in SessionIds : HandsOut(t, s) => ~is_closed[s]
C14_ClosedIsTerminal == [][C14_TerminalStep]_vars
\* start() was called on a session that close() had closed, and raised
C14_Witness ==
    \E t \in Tasks, s \in SessionIds :
        /\ res[t] = Raised("closed_restart", s)
        /\ is_closed[s] /\ process[s] = "none" /\ spawned[s] = 1

\* C15: a caller that was queued on the lock and obtains it when the session
\* is marked closed fails with the session-closed error of exec() and does not
\* go on to the framed write.
C15_ObtainsLock(t, s) == pc[t] = "lock" /\ ex[t].s = s /\ pc'[t] # "lock"
C15_QueuedFindsClosed ==
    [][\A t \in Tasks, s \in SessionIds :
          (C15_ObtainsLock(t, s) /\ is_closed[s]) =>
              (pc'[t] = "idle" /\ res'[t] = Raised("closed", s))]_vars

\* C16: the session get_or_create_session returns is not marked closed when
\* it is returned, holds a process handle and is the registry's entry of its
\* container; a cached entry that is not returned is deleted before the new
\* session is started, and the session returned in its place is a new one.
C16_Creates(t) == Caller(t) /\ pc'[t] = "spawn" /\ op'[t] = "get_or_create_session"
C16_ReturnStep ==
    \A t \in Tasks :
        /\ \A s \in SessionIds :
              HandsOut(t, s) => /\ ~is_closed'[s] /\ process'[s] = "proc"
                                /\ Get(sessions', container[s]) = s
        /\ \A s \in SessionIds :
              CreatedSession(t, s) => (~handed[s] /\ spawned[s] = 1)
        /\ C16_Creates(t) =>
              LET c == container'[ex'[t].s]
                  old == Get(sessions, c)
              IN  /\ ~Has(sessions', c)
                  /\ Has(sessions, c) => (is_closed[old] \/ process[old] = "none")
        /\ \A s \in SessionIds :
              (Caller(t) /\ pc'[t] = "idle" /\ res'[t] = Returned("session", s))
                  => (Get(sessions, container[s]) = s /\ sessions' = sessions)
C16_NeverReturnsClosed == [][C16_ReturnStep]_vars
\* the cached session died and was marked closed; get_or_create_session
\* returned a new session, which is now the registry's entry
C16_Witness ==
    \E t \in Tasks :
        /\ res[t] = Returned("session", 2) /\ pc[t] = "idle"
        /\ is_closed[1] /\ process[1] = "proc" /\ handed[1]
        /\ ~is_closed[2] /\ Get(sessions, "c1") = 2

\* an earlier get_or_create_session returned session s, and since then it was
\* neither closed (by close_session or by a sweep) nor did its process die
C17_ReturnedAndLive(s) ==
    /\ \E u \in Tasks : pc[u] = "idle" /\ res[u] = Returned("session", s)
    /\ IsActive(s) /\ alive[s] = "running"
    /\ \A u \in Tasks : ~(pc[u] = "close_wait" /\ ex[u].s = s)
\* C17: a get_or_create_session called for the container of such a session
\* returns that session at once, constructs and spawns nothing, and leaves
\* the registry's map as it is.
C17_Idempotent ==
    [][\A t \in Tasks, s \in SessionIds :
          /\ (C17_ReturnedAndLive(s) /\ C16_Creates(t))
                => container'[ex'[t].s] # container[s]
          /\ (C17_ReturnedAndLive(s) /\ \E r \in SessionIds :
                  ReusedSession(t, r) /\ container[r] = container[s])
                => /\ ReusedSession(t, s)
                   /\ UNCHANGED <<sessions, nsess, spawned, process, alive>>]_vars

\* C18: a start() that spawned its process returns.
C18_StartTerminates == \A t \in Tasks : (pc[t] = "drain") ~> (pc[t] = "idle")

\* C19: while the cleanup task runs, a registered session that is idle is in
\* the end closed and no longer the registry's entry (or is no longer idle,
\* because a command completed on it); get_or_create_session never returns a
\* session that was closed.
C19_Tracked(s) == Get(sessions, container[s]) = s
C19_IdleIsEvicted ==
    /\ \A s \in SessionIds :
          (pc[Reaper] # "idle" /\ C19_Tracked(s) /\ IsIdle(s))
              ~> (~IsIdle(s) \/ (is_closed[s] /\ ~C19_Tracked(s)))
    /\ [][\A s \in SessionIds : HandsOut(1, s) => ~is_closed[s]]_vars

\* C20: every session a sweep closes is idle when the sweep calls its close():
\* the session whose process the sweep starts to wait for, and every session
\* whose entry the sweep deletes after a close() that returned at once.
C20_StartsWait(s) ==
    /\ pc'[Reaper] = "close_wait" /\ ex'[Reaper].s = s
    /\ (pc[Reaper] # "close_wait" \/ ex[Reaper].s # s)
C20_DeletesAtOnce(s) ==
    /\ pc[Reaper] \in {"sleep", "close_wait"} /\ pc'[1] = pc[1]
    /\ C19_Tracked(s) /\ Get(sessions', container[s]) # s
    /\ ~(pc[Reaper] = "close_wait" /\ ex[Reaper].s = s)
C20_ClosesOnlyIdle ==
    [][\A s \in SessionIds : (C20_StartsWait(s) \/ C20_DeletesAtOnce(s)) => IsIdle(s)]_vars

\* close_all_sessions returned in this step: at once, or after the last
\* close() it waited for
CloseAllReturned(t) ==
    /\ pc'[t] = "idle" /\ res'[t] = Returned("none", 0)
    /\ (Caller(t) \/ (pc[t] = "close_wait" /\ op[t] = "close_all_sessions"))

\* C21: when close_all_sessions returns, the registry's map is empty and
\* every session whose entry it dropped is marked closed, unless it was never
\* started.
C21_CloseAllClosesAll ==
    [][\A t \in Tasks :
          CloseAllReturned(t) =>
              /\ sessions' = << >>
              /\ \A i \in 1..Len(sessions) :
                    process'[sessions[i].s] = "proc" => is_closed'[sessions[i].s]]_vars

\* C22: a start() called on a session that holds a process handle or is
\* marked closed raises the error of its state check and changes nothing: it
\* goes on to spawn only on a session with no handle that is not marked closed.
C22_StartErrors == {"already_started", "closed_restart"}
C22_StartStep ==
    \A t \in Tasks :
        /\ (Caller(t) /\ pc'[t] = "spawn" /\ op'[t] = "start") =>
              (process[ex'[t].s] = "none" /\ ~is_closed[ex'[t].s])
        /\ (Caller(t) /\ pc'[t] = "idle" /\ res'[t].kind = "error"
              /\ res'[t].err \in C22_StartErrors) =>
              /\ (res'[t].err = "already_started") <=> (process[res'[t].s] = "proc")
              /\ (res'[t].err = "closed_restart") =>
                    (process[res'[t].s] = "none" /\ is_closed[res'[t].s])
              /\ UNCHANGED <<process, is_closed, alive, spawned, nsess, sessions,
                             pending, pipe, lock, waiters>>
C22_StartNotIdempotent == [][C22_StartStep]_vars
\* start() was called a second time on a started session that is in use, and
\* raised
C22_Witness ==
    \E t \in Tasks, s \in SessionIds :
        /\ res[t] = Raised("already_started", s)
        /\ ~is_closed[s] /\ process[s] = "proc" /\ spawned[s] = 1
        /\ \E u \in Tasks : InFlight(u, s)

\* create_subprocess_exec raised inside the start() of get_or_create_session
C23_SpawnFailed(t) ==
    /\ pc[t] = "spawn" /\ op[t] = "get_or_create_session"
    /\ pc'[t] = "idle" /\ res'[t].kind = "error"
C23_Stored(s) == \E i \in 1..Len(sessions) : sessions[i].s = s
C23_MapHoldsStarted ==
    \A s \in SessionIds :
        C23_Stored(s) => (spawned[s] >= 1 /\ s <= nsess
                          /\ \A t \in Tasks : res[t] # Raised("spawn", s))
C23_FailStep ==
    \A t \in Tasks :
        C23_SpawnFailed(t) =>
            /\ res'[t] = Raised("spawn", ex[t].s)
            /\ process'[ex[t].s] = "none" /\ spawned'[ex[t].s] = 0
            /\ UNCHANGED <<sessions, nsess, spawned, process, alive>>
C24_CloseEnded(s) ==
    is_closed[s] \/ \E u \in Tasks : pc[u] = "idle" /\ res[u] = Raised("lookup", s)
\* a close() on session s acts on the process in this step: it writes "exit"
\* and starts to wait, or its write fails and its kill() raises
C24_CloseActs(s) ==
    \E t \in Tasks :
        \/ /\ pc'[t] = "close_wait" /\ ex'[t].s = s
           /\ (pc[t] # "close_wait" \/ ex[t].s # s)
        \/ /\ (Caller(t) \/ pc[t] = "close_wait")
           /\ pc'[t] = "idle" /\ res'[t] = Raised("lookup", s)
\* C24: once a close() on a session has ended, no later close() on it writes to
\* the pipe, waits for the process or kills it.
C24_CloseIdempotent ==
    [][\A s \in SessionIds : C24_CloseActs(s) => ~C24_CloseEnded(s)]_vars

\* a close_session call ended in this step (of the operations of
\* SpecLifecycle only close_session returns a bool or raises these errors)
C25_Ends(t) ==
    \/ /\ Caller(t) /\ pc'[t] = "idle"
       /\ (res'[t].kind = "bool" \/ (res'[t].kind = "error"
                                       /\ res'[t].err \in {"lookup", "keyerror"}))
    \/ pc[t] = "close_wait" /\ op[t] = "close_session" /\ pc'[t] = "idle"
\* C25: close_session ends by returning a bool: True after it closed the
\* container's session and deleted its entry; False, with the map and every
\* session unchanged, when the container had no entry.
C25_CloseSessionStep ==
    \A t \in Tasks :
        C25_Ends(t) =>
            /\ res'[t].kind = "bool"
            /\ \A s \in SessionIds :
                  CloseSessionReturned(t, s) =>
                      (is_closed'[s] /\ ~Has(sessions', container[s]))
            /\ res'[t] = Returned("bool", 0) =>
                  /\ \E c \in Containers : ~Has(sessions, c)
                  /\ UNCHANGED <<sessions, sessVars, procVars>>
C25_CloseSessionContract == [][C25_CloseSessionStep]_vars

\* task t's exec() on session s ends in this step, from inside the lock
C26_EndsHolding(t, s) == InFlight(t, s) /\ pc'[t] = "idle"
\* the lock of s is held by a call that is still running on s
C26_HeldByRunning(s) == lock[s] # 0 => (InFlight(lock[s], s) /\ op[lock[s]] = "exec")
\* every caller queued on s is in the lock's queue, and the first of the queue
\* is a caller that waits for this lock
C26_QueueLive(s) ==
    /\ \A t \in AllTasks :
          (pc[t] = "lock" /\ ex[t].s = s) => (\E i \in 1..Len(waiters[s]) : waiters[s][i] = t)
    /\ waiters[s] # << >> => (pc[Head(waiters[s])] = "lock" /\ ex[Head(waiters[s])].s = s)
C26_ReleaseStep ==
    \A t \in AllTasks, s \in SessionIds : C26_EndsHolding(t, s) => lock'[s] = 0

\* C26: every way out of exec() (result, timeout, process death, write error,
\* cancellation of the caller) frees the session's lock in the step that ends
\* the call; a held lock is always held by a call still in flight, and the
\* first queued caller is always one that can take the freed lock.
C26_LockAlwaysReleased ==
    /\ [](\A s \in SessionIds : C26_HeldByRunning(s) /\ C26_QueueLive(s))
    /\ [][C26_ReleaseStep]_vars
\* the first call held the lock and was cancelled; the lock is free again and
\* the second caller, queued behind it, is first in line
C26_Witness ==
    /\ ops = 2 /\ pc[1] = "idle" /\ res[1].err = "cancelled"
    /\ pc[2] = "lock" /\ lock[1] = 0 /\ Head(waiters[1]) = 2

\* task t's exec() ends in this step: at once from its checks, from the first
\* segment of _exec_locked, or from the lock's queue or the read loop
C27_ExecEnds(t) ==
    /\ pc'[t] = "idle"
    /\ \/ pc[t] \in {"read", "lock"}
       \/ Caller(t) /\ ncalls' > ncalls
       \/ Caller(t) /\ res'[t].kind = "error" /\ res'[t].err \in {"not_started", "closed"}
\* the RuntimeErrors of exec(): not started (line 161), stdin not available
\* (line 190), closed (line 166), process ended (line 221)
C27_TypedErrors == {"not_started", "no_stdin", "closed", "died"}
C27_OutcomeStep ==
    \A t \in Tasks :
        C27_ExecEnds(t) =>
            \/ res'[t].kind = "result"
            \/ res'[t].kind = "error" /\ res'[t].err \in C27_TypedErrors

\* C27: every exec() ends with a structured result or with one of the typed
\* errors (not started / invalid state, session closed, session died), also
\* when close() runs on the session while the call is in flight or queued.
C27_OnlyTypedOutcomes == [][C27_OutcomeStep]_vars

\* task t's exec() returns a timed-out result in this step
C28_ReturnsTimedOut(t) ==
    /\ pc[t] = "read" /\ pc'[t] = "idle"
    /\ res'[t].kind = "result" /\ res'[t].timed_out
C28_Late(t) == now - ex[t].start_time > ex[t].timeout + ReadWait

C29_Completes(s) == \E t \in Tasks : InFlight(t, s) /\ ReturnsResult(t)
C29_MetricsStep ==
    \A s \in SessionIds :
        s <= nsess =>
            /\ commands_executed'[s] >= commands_executed[s]
            /\ last_command_at'[s] >= last_command_at[s]
            /\ IF C29_Completes(s)
               THEN /\ commands_executed'[s] = commands_executed[s] + 1
                    /\ last_command_at'[s] = now
               ELSE UNCHANGED <<commands_executed[s], last_command_at[s]>>

\* C29: the metrics of a session never decrease; every exec() that returns a
\* result (normal or timed out) adds exactly 1 to commands_executed and sets
\* the last-command time to the time of the return, and no other step (a
\* failing exec(), close(), get_info(), a registry operation) changes them.
C29_MetricsOnlyOnResult == [][C29_MetricsStep]_vars
\* session 1 has returned a timed-out result and has failed another exec();
\* one command is counted
C29_Witness ==
    \E t, u \in Tasks :
        /\ res[t].kind = "result" /\ res[t].timed_out /\ res[t].s = 1
        /\ res[u].kind = "error" /\ res[u].s = 1 /\ res[u].err \in {"died", "write", "closed"}
        /\ commands_executed[1] = 1 /\ last_command_at[1] > 0

\* task r runs cleanup_loop: it sleeps or sweeps, and was not cancelled
C30_Runs(r) == pc[r] \in {"sleep", "close_wait"}

\* C30: at any time at most one task runs the cleanup loop of the registry,
\* whatever start_cleanup_task and stop_cleanup_task calls were made.
C30_AtMostOneReaper ==
    \A r, q \in ReaperTasks : (C30_Runs(r) /\ C30_Runs(q)) => r = q

\* task t takes a step of an exec() on session s: it makes the call, or its
\* suspended call is resumed
C31_ActsOn(t, s) ==
    \/ /\ Caller(t)
       /\ \/ pc'[t] \in {"read", "lock"} /\ ex'[t].s = s
          \/ pc'[t] = "idle" /\ res'[t].s = s
    \/ /\ pc[t] \in {"read", "lock"} /\ ex[t].s = s
       /\ now' = now /\ (pc'[t] # pc[t] \/ ex'[t] # ex[t])
\* the state of session s and of its subprocess
C31_StateOf(s) ==
    <<process[s], is_closed[s], lock[s], waiters[s], last_command_at[s],
      commands_executed[s], alive[s], pending[s], pipe[s]>>
C31_Step ==
    \A t \in AllTasks, s \in SessionIds :
        C31_ActsOn(t, s) =>
            /\ \A q \in SessionIds \ {s} : UNCHANGED C31_StateOf(q)
            /\ (Caller(t) /\ lock[s] = 0 /\ waiters[s] = << >>) => pc'[t] # "lock"

\* C31: an exec() on one session, in flight, queued or timed out, leaves every
\* other session alone: a call on a session whose own lock is free is never
\* queued, no step of a call changes another session's state (so it cannot
\* change what a call there reads or returns), and with calls running on
\* another session no call stays in its read loop past its timeout plus one
\* read wait.
C31_SessionsIndependent ==
    /\ [](\A t \in AllTasks : pc[t] = "read" => ~C28_Late(t))
    /\ [][C31_Step]_vars
\* a call is in flight on session 1 with another queued behind it, while a
\* call on session 2 has returned its result in time
C31_Witness ==
    /\ pc[1] = "read" /\ ex[1].s = 1
    /\ pc[2] = "lock" /\ ex[2].s = 1
    /\ pc[3] = "idle" /\ res[3].kind = "result" /\ res[3].s = 2 /\ ~res[3].timed_out

\* task t's get_info() or get_all_sessions_info() call is this step
C32_Reads(t) == Caller(t) /\ pc'[t] = "idle" /\ res'[t].kind \in {"info", "all_info"}
\* the containers of the entries of a report
C32_Keys(infos) == {infos[i].c : i \in 1..Len(infos)}
C32_Step ==
    \A t \in Tasks :
        C32_Reads(t) =>
            /\ UNCHANGED <<sessions, nsess, sessVars, procVars, cleanup_task>>
            /\ \A u \in TaskIds \ {t} : pc'[u] = pc[u] /\ ex'[u] = ex[u]
            /\ res'[t].kind = "all_info" =>
                  /\ res'[t].n = Len(sessions)
                  /\ Len(res'[t].infos) = Cardinality(C32_Keys(res'[t].infos))
                  /\ C32_Keys(res'[t].infos) = {sessions[i].c : i \in 1..Len(sessions)}
                  /\ \A i \in 1..Len(res'[t].infos) :
                        res'[t].infos[i].s = Get(sessions, res'[t].infos[i].c)

\* C32: get_info() and get_all_sessions_info() change nothing: no session's
\* process handle, closed flag, metrics or lock, not the map, not the handle
\* of the cleanup task, no other task; and get_all_sessions_info() reports one
\* entry for each key of the map, the entry of the session stored under it,
\* with total_sessions equal to the size of the map.
C32_InfoReadOnly == [][C32_Step]_vars
\* a report of two sessions, made while the cleanup task runs and a call is
\* in flight
C32_Witness ==
    \E t, u \in Tasks :
        /\ res[t].kind = "all_info" /\ res[t].n = 2 /\ Len(res[t].infos) = 2
        /\ pc[u] = "read" /\ cleanup_task # 0

\* task t holds the lock of a session in exec(), with a deadline that the
\* clock of the model reaches
C33_Holds(t) ==
    /\ pc[t] \in {"read", "write"}
    /\ lock[ex[t].s] = t
    /\ ex[t].start_time + ex[t].timeout < MaxTime

\* C33: every exec() that has taken the lock ends (it returns or raises),
\* also when the subprocess never prints the end marker or has stopped
\* reading its input.
C33_ExecEnds == \A t \in Tasks : C33_Holds(t) ~> pc[t] = "idle"

\* task t's close_session() ends in this step, after its awaited close()
C34_CloseSessionEnds(t) ==
    pc[t] = "close_wait" /\ op[t] = "close_session" /\ pc'[t] = "idle"
C34_Step ==
    \A t \in Tasks :
        C34_CloseSessionEnds(t) =>
            /\ res'[t].kind = "bool"
            /\ ~Has(sessions', Head(todo[t]))

\* C34: a close_session() that awaited the shutdown of its session, with
\* another removal of the same container's session running meanwhile, ends
\* without raising and leaves no entry for the container in the map.
C34_OverlappingRemovals == [][C34_Step]_vars

C36_StopReturns(t) == pc[t] = "stop_wait" /\ pc'[t] = "idle"
\* the close() of session s was begun by a cleanup loop ("exit" written) and
\* given up at the cancellation: the session is not marked closed
C36_PartlyShut(s) ==
    /\ ~is_closed[s]
    /\ \E r \in ReaperTasks : pc[r] = "done" /\ res[r].err = "cancelled" /\ res[r].s = s
C36_Step ==
    /\ \A t \in Tasks :
          C36_StopReturns(t) =>
              /\ pc'[ex[t].awaited] = "done"
              /\ cleanup_task' = 0
              /\ \A s \in SessionIds : ~C36_PartlyShut(s)
    /\ \A r \in ReaperTasks : pc[r] = "done" => (pc'[r] = "done" /\ UNCHANGED res[r])

\* C36: when stop_cleanup_task() returns, the loop it cancelled has ended and
\* never sweeps again, the handle of the cleanup task is None (so that a later
\* start_cleanup_task creates a new loop), and the cancellation has left no
\* session with its shutdown begun but not marked closed.
C36_StopIsClean == [][C36_Step]_vars

\* ------------------------------------------------------------- the server

\* The run of the server (main.py): task Main runs main(), task 1 runs the
\* requests of the client one after the other (exec_via_session), and the
\* cleanup task runs beside them.
Main == 2

\* main() with use_persistent_sessions: the SessionManager is constructed,
\* start_cleanup_task() is awaited and the server runs
MainStart ==
    /\ pc[Main] = "idle"
    /\ cleanup_task = 0
    /\ pc' = [pc EXCEPT ![Main] = "serving", ![Reaper] = "sleep"]
    /\ op' = [op EXCEPT ![Main] = "main", ![Reaper] = "cleanup_loop"]
    /\ cleanup_task' = Reaper
    /\ UNCHANGED <<now, ops, ncalls, sessions, nsess, sessVars, procVars, ex, todo, res>>

\* exec_via_session(): session_manager.get_or_create_session(container_name)
ServeGetOrCreate(c) ==
    /\ pc[Main] = "serving"
    /\ GetOrCreateSession(1, c)

\* exec_via_session(): session.exec(command, timeout=cfg.command_timeout)
ServeExec(s) ==
    /\ pc[Main] = "serving"
    /\ Exec(1, s, CmdEcho, DefaultTimeout)

\* server.run() returns while no request is being handled, and main() ends:
\* nothing follows "await server.run(...)", so neither close_all_sessions()
\* nor stop_cleanup_task() is called.  asyncio.run() then cancels the tasks
\* that are left, here the cleanup task, and closes the event loop.
ServerExit ==
    /\ pc[Main] = "serving"
    /\ pc[1] = "idle"
    /\ pc' = [pc EXCEPT ![Main] = "exited", ![Reaper] = "done"]
    /\ ex' = [ex EXCEPT ![Reaper] = NoEx]
    /\ todo' = [todo EXCEPT ![Reaper] = << >>]
    /\ res' = [res EXCEPT ![Reaper] = Raised("cancelled", ex[Reaper].s)]
    /\ UNCHANGED <<now, ops, ncalls, sessions, nsess, sessVars, procVars, op,
                   cleanup_task>>

NextServer ==
    \/ Tick
    \/ \E s \in SessionIds : ShellEmit(s) \/ Kill(s) \/ Reap(s)
    \/ MainStart
    \/ \E c \in Containers : ServeGetOrCreate(c)
    \/ StartSpawned(1) \/ StartFails(1) \/ StartDrained(1)
    \/ \E s \in SessionIds : ServeExec(s)
    \/ ExecLine(1) \/ ExecEOF(1) \/ ExecPoll(1)
    \/ ReaperSweep \/ CloseWait(Reaper)
    \/ ServerExit

SpecServer == Init /\ [][NextServer]_vars

\* C37: when the server's run has ended, the registry holds no session and no
\* subprocess of a session is still running (close_all_sessions was called).
C37_Ended == pc[Main] = "exited"
C37_ShutdownClosesAll ==
    C37_Ended =>
        /\ sessions = << >>
        /\ \A s \in SessionIds : alive[s] \notin {"running", "stalled"}

\* C38: a sweep of the cleanup loop that raises anything but CancelledError
\* leaves the loop asleep before its next sweep, and the loop's task ends only
\* by cancellation.
C38_SweepFails(r) ==
    /\ op[r] = "cleanup_loop"
    /\ pc[r] \in {"sleep", "close_wait"}
    /\ res'[r] # res[r]
    /\ res'[r].kind = "error"
    /\ res'[r].err # "cancelled"
C38_LoopEnds(r) == pc[r] # "done" /\ pc'[r] = "done"
C38_Step ==
    \A r \in ReaperTasks :
        /\ C38_SweepFails(r) => pc'[r] = "sleep" /\ op'[r] = "cleanup_loop"
        /\ C38_LoopEnds(r) => res'[r].kind = "error" /\ res'[r].err = "cancelled"
C38_LoopSurvivesErrors == [][C38_Step]_vars
C38_Witness ==
    \E r \in ReaperTasks :
        /\ pc[r] = "sleep"
        /\ cleanup_task = r
        /\ res[r].kind = "error"
        /\ res[r].err = "lookup"

\* Callers that wait: three calls of exec() on one started session, all made
\* in the second in which the run starts, under timed reads.  A call that
\* finds the lock taken queues in second 0.
ExecAtOnce(t, timeout) == now = 0 /\ Exec(t, 1, CmdEcho, timeout)
NextWaiting ==
    \/ TickTimed
    \/ \E s \in SessionIds : ShellEmit(s) \/ Kill(s) \/ Reap(s)
    \/ \E t \in AllTasks, timeout \in TimedTimeouts : ExecAtOnce(t, timeout)
    \/ \E t \in AllTasks : ExecWake(t) \/ ExecLine(t) \/ ExecEOF(t) \/ ExecPollTimed(t)

SpecWaiting == InitQueue /\ [][NextWaiting]_vars

\* C39: the timeout of exec() runs from the moment the call holds the lock:
\* the step in which a call starts to execute sets its start_time to the time
\* of that step, and a call is reported as timed out only out of its read
\* loop, after its command was written, when more than its timeout has passed
\* since that start_time.
C39_Starts(t) == pc[t] \in {"idle", "lock"} /\ pc'[t] \in {"read", "write"}
C39_ReturnsTimedOut(t) ==
    /\ pc[t] # "idle" /\ pc'[t] = "idle"
    /\ res'[t].kind = "result"
    /\ res'[t].timed_out
C39_Step ==
    \A t \in AllTasks :
        /\ C39_Starts(t) => ex'[t].start_time = now
        /\ C39_ReturnsTimedOut(t) =>
               /\ pc[t] = "read"
               /\ now - ex[t].start_time > ex[t].timeout
C39_TimeoutFromLockHeld == [][C39_Step]_vars
\* a call with a timeout of no seconds that queued in second 0 executes in a
\* later second, not timed out
C39_Witness ==
    \E t \in AllTasks :
        /\ pc[t] = "read"
        /\ ex[t].timeout = 0
        /\ ex[t].start_time >= 1
        /\ ~TimedOut(ex[t])

====
